---- MODULE Spec2Model ----
(***************************************************************************)
(* A model of arkit's Generator (src/generator.ts): the export sequencer   *)
(* (generate, convert, convertToImage, the shared requestChain) as a state *)
(* machine over event-loop turns, and the PlantUML renderers               *)
(* (generatePlantUMLComponent, getConnectionLength, getConnectionSign,     *)
(* generatePlantUMLSkin) as operators applied to bounded inputs.           *)
(*                                                                         *)
(* Strings the code inspects character by character (destinations, image   *)
(* formats, component names) are sequences of one-character strings.       *)
(* One action is one turn of the event loop: the synchronous code of the   *)
(* handler and every promise continuation (microtask) it makes runnable.   *)
(***************************************************************************)
EXTENDS Integers, Sequences, FiniteSets, TLC

VARIABLES
    outputs,        \* this.config.outputs: a sequence of outputs, each the sequence of its destinations
    files,          \* the paths that hold a file
    fsLog,          \* the filesystem calls made so far: [op, path, export]
    exports,        \* one record per convert() call made by generate()
    requests,       \* one record per convertToImage() call
    requestChain,   \* the requests whose continuation on this.requestChain has not completed, oldest first
    chainRejected,  \* whether the promise held by this.requestChain is rejected
    started,        \* the requests whose remote call (request()) was started, in start order
    debugLog,       \* the requests whose failure was passed to debug()
    gen,            \* generate(): "idle", "threw", or the state of the promise it returned
    input,          \* the arguments of one renderer call
    output          \* what the renderer returned

exportVars == <<outputs, files, fsLog, exports, requests, requestChain,
                chainRejected, started, debugLog, gen>>
renderVars == <<input, output>>
vars == <<outputs, files, fsLog, exports, requests, requestChain,
          chainRejected, started, debugLog, gen, input, output>>

------------------------------------------------------------------------------
(* Bounds *)

MaxExports == 2
MaxDirect == 1
MaxDirDepth == 2
MaxComponents == 22

------------------------------------------------------------------------------
(* Small helpers *)

Range(s) == {s[i] : i \in 1..Len(s)}

Max(a, b) == IF a >= b THEN a ELSE b

Min(a, b) == IF a <= b THEN a ELSE b

RECURSIVE SeqsUpTo(_, _)
SeqsUpTo(S, n) ==
    IF n = 0 THEN {<<>>}
    ELSE LET shorter == SeqsUpTo(S, n - 1)
         IN  shorter \cup {Append(s, x) : s \in shorter, x \in S}

------------------------------------------------------------------------------
(* Strings and paths *)

\* the characters \w matches, among those the model uses
WordChars ==
    {"a", "b", "c", "g", "l", "m", "n", "p", "s", "t", "u", "v", "x", "_"}

\* enum OutputFormat of ./schema
OutputFormat == {<<"s", "v", "g">>, <<"p", "n", "g">>}

\* this.config.directory
Directory == <<"/", "w">>

\* path.resolve(directory, p) for a relative p without '.' or '..' segments
Resolve(dir, p) == dir \o <<"/">> \o p

\* the index of the last occurrence of c in s, 0 if none
LastIndexOf(s, c) ==
    LET at == {i \in 1..Len(s) : s[i] = c}
    IN  IF at = {} THEN 0 ELSE CHOOSE i \in at : \A j \in at : j <= i

\* path.extname(p): from the last '.' of the last segment, '' when there is
\* none or when the segment starts with it
ExtName(p) ==
    LET slash == LastIndexOf(p, "/")
        dot == LastIndexOf(p, ".")
    IN  IF dot > slash + 1 THEN SubSeq(p, dot, Len(p)) ELSE <<>>

\* s.replace('.', ''): the first '.' removed
StripDot(s) ==
    LET at == {i \in 1..Len(s) : s[i] = "."}
    IN  IF at = {} THEN s
        ELSE LET i == CHOOSE k \in at : \A j \in at : k <= j
             IN  SubSeq(s, 1, i - 1) \o SubSeq(s, i + 1, Len(s))

\* format.match(/\w{3}/): the first run of three word characters, <<>> for null
Match3(format) ==
    LET at == {i \in 1..(Len(format) - 2) :
                 \A k \in 0..2 : format[i + k] \in WordChars}
    IN  IF at = {} THEN <<>>
        ELSE LET i == CHOOSE k \in at : \A j \in at : k <= j
             IN  SubSeq(format, i, i + 2)

------------------------------------------------------------------------------
(* The destinations and formats drawn as inputs *)

SvgKeyword == <<"s", "v", "g">>
SvgPath == <<"a", ".", "s", "v", "g">>
PumlPath == <<"b", ".", "p", "u", "m", "l">>
TxtPath == <<"c", ".", "t", "x", "t">>

\* the destinations an output may name; the bare keyword is the implicit one
Destinations == {SvgPath, PumlPath, TxtPath}

DirectFormats == {<<".", "p", "n", "g">>, <<"a", "b">>}

\* the destinations generate() exports one output to
DestinationsOf(out) == IF Len(out) > 0 THEN out ELSE <<SvgKeyword>>

RECURSIVE AllDestinations(_)
AllDestinations(outs) ==
    IF outs = <<>> THEN <<>>
    ELSE DestinationsOf(Head(outs)) \o AllDestinations(Tail(outs))

RECURSIVE ConfigsWithin(_)
ConfigsWithin(n) ==
    IF n = 0 THEN {<<>>}
    ELSE LET rest == ConfigsWithin(n - 1)
             outs == SeqsUpTo(Destinations, n)
         IN  rest \cup
             {<<o>> \o c : o \in outs, c \in rest}

Configs == {c \in ConfigsWithin(MaxExports) : Len(AllDestinations(c)) <= MaxExports}

------------------------------------------------------------------------------
(* The export sequencer: convert, convertToImage, requestChain *)

\* const shouldConvertAndSave = Object.values(OutputFormat).includes(ext.replace('.', ''))
ShouldConvertAndSave(pathOrType) ==
    StripDot(ExtName(Resolve(Directory, pathOrType))) \in OutputFormat

\* const shouldConvertAndOutput = Object.values(OutputFormat).includes(pathOrType)
ShouldConvertAndOutput(pathOrType) == pathOrType \in OutputFormat

\* this.requestChain = this.requestChain.then(() => ...): the continuation of
\* request r is attached behind every continuation attached before it
ChainThen(chain, r) == Append(chain, r)

\* The continuation at the head of the chain runs once the promise before it
\* is fulfilled: it calls this.request(), which starts the remote call.  A
\* rejected chain skips its continuations.
RunChain(st) ==
    IF /\ ~st.chainRejected
       /\ st.requestChain # <<>>
       /\ st.requests[Head(st.requestChain)].state = "queued"
    THEN LET r == Head(st.requestChain)
         IN  [st EXCEPT !.requests[r].state = "inflight",
                        !.started = Append(@, r)]
    ELSE st

\* convertToImage() calling this.request() at once, beside the chain
ConvertToImageUnchained(st, format, e) ==
    LET path == Match3(format)
        r == Len(st.requests) + 1
    IN  IF path = <<>>
        THEN [st EXCEPT !.requests = Append(@,
                 [format |-> format, path |-> path, export |-> e,
                  state |-> "unqueued", promise |-> "rejected"])]
        ELSE [st EXCEPT !.requests = Append(@,
                 [format |-> format, path |-> <<"/">> \o path, export |-> e,
                  state |-> "inflight", promise |-> "pending"]),
                        !.started = Append(@, r)]

\* convertToImage(puml, format), called for export e (0: called directly)
ConvertToImage(st, format, e) ==
    LET path == Match3(format)
        r == Len(st.requests) + 1
    IN  IF path = <<>>
        THEN [st EXCEPT !.requests = Append(@,
                 [format |-> format, path |-> path, export |-> e,
                  state |-> "unqueued", promise |-> "rejected"])]
        ELSE [st EXCEPT !.requests = Append(@,
                 [format |-> format, path |-> <<"/">> \o path, export |-> e,
                  state |-> "queued", promise |-> "pending"]),
                        !.requestChain = ChainThen(@, r)]

\* convert(pathOrType, puml) up to its return, as the call that makes export
\* number Len(st.exports) + 1.  unlinkThrows, writeThrows: whether
\* fs.unlinkSync, fs.writeFileSync throw when this call reaches them.
Convert(st, pathOrType, unlinkThrows, writeThrows) ==
    LET fullExportPath == Resolve(Directory, pathOrType)
        ext == ExtName(fullExportPath)
        e == Len(st.exports) + 1
        existed == fullExportPath \in st.files
        removed ==
            IF existed
            THEN [st EXCEPT !.files = @ \ {fullExportPath},
                            !.fsLog = Append(@, [op |-> "unlink",
                                                 path |-> fullExportPath,
                                                 export |-> e])]
            ELSE st
        export == [dest |-> pathOrType, path |-> fullExportPath,
                   existed |-> existed, req |-> 0, state |-> "resolved"]
    IN  IF existed /\ unlinkThrows
        THEN [st EXCEPT !.threw = TRUE]
        ELSE IF ShouldConvertAndSave(pathOrType) \/ ShouldConvertAndOutput(pathOrType)
        THEN LET queued == ConvertToImage(removed,
                               IF ext # <<>> THEN ext ELSE pathOrType, e)
                 r == Len(queued.requests)
             IN  [queued EXCEPT !.exports = Append(@,
                     [export EXCEPT !.req = r,
                                    !.state = IF queued.requests[r].promise = "rejected"
                                              THEN "rejected" ELSE "pending"])]
        ELSE IF ext = <<".", "p", "u", "m", "l">>
        THEN IF writeThrows
             THEN [removed EXCEPT !.threw = TRUE]
             ELSE [removed EXCEPT !.files = @ \cup {fullExportPath},
                                  !.fsLog = Append(@, [op |-> "write",
                                                       path |-> fullExportPath,
                                                       export |-> e]),
                                  !.exports = Append(@, export)]
        ELSE [removed EXCEPT !.exports = Append(@, export)]

\* The loops of generate(): convert() for each destination in turn; an
\* exception thrown by one call leaves the loops.  throwAt is the call whose
\* filesystem operation throwOp throws (0: none does).
RECURSIVE GenerateLoop(_, _, _, _)
GenerateLoop(st, dests, throwAt, throwOp) ==
    IF dests = <<>> \/ st.threw THEN st
    ELSE LET here == Len(st.exports) + 1 = throwAt
         IN  GenerateLoop(Convert(st, Head(dests),
                                  here /\ throwOp = "unlink",
                                  here /\ throwOp = "write"),
                          Tail(dests), throwAt, throwOp)

\* Promise.all(promises), given the state g of the promise it returned
PromiseAll(g, exps) ==
    IF g # "pending" THEN g
    ELSE IF \E e \in 1..Len(exps) : exps[e].state = "rejected" THEN "rejected"
    ELSE IF \A e \in 1..Len(exps) : exps[e].state = "resolved" THEN "resolved"
    ELSE "pending"

\* .then(result => resolve(result)) on request()'s promise
RequestResolved(reqs, r) ==
    [reqs EXCEPT ![r].state = "ok", ![r].promise = "resolved"]

\* .catch(err => debug(err)) on request()'s promise: the error is logged and
\* neither resolve nor reject of the caller's promise is called
RequestRejectedToCaller(reqs, r) ==
    [reqs EXCEPT ![r].state = "failed", ![r].promise = "rejected"]

RequestRejected(reqs, r) == [reqs EXCEPT ![r].state = "failed"]

\* Whether the promise this continuation leaves on the chain is rejected:
\* .catch(err => debug(err)) returns normally, so it is fulfilled
ChainAfterRethrow(wasRejected, ok) == wasRejected \/ ~ok

ChainAfter(wasRejected, ok) == wasRejected

\* The continuation convert() attaches to convertToImage()'s promise, for
\* export e, once that promise has the state promise
ConvertThen(st, e, promise, writeThrows) ==
    IF e = 0 \/ promise = "pending" THEN st
    ELSE IF promise = "rejected"
    THEN [st EXCEPT !.exports[e].state = "rejected"]
    ELSE IF ShouldConvertAndSave(st.exports[e].dest)
    THEN IF writeThrows
         THEN [st EXCEPT !.exports[e].state = "rejected"]
         ELSE [st EXCEPT !.files = @ \cup {st.exports[e].path},
                         !.fsLog = Append(@, [op |-> "write",
                                              path |-> st.exports[e].path,
                                              export |-> e]),
                         !.exports[e].state = "resolved"]
    ELSE [st EXCEPT !.exports[e].state = "resolved"]

------------------------------------------------------------------------------
(* The state machine of the export sequencer *)

State ==
    [files |-> files, fsLog |-> fsLog, exports |-> exports,
     requests |-> requests, requestChain |-> requestChain,
     chainRejected |-> chainRejected, started |-> started, threw |-> FALSE]

Install(st) ==
    /\ files' = st.files
    /\ fsLog' = st.fsLog
    /\ exports' = st.exports
    /\ requests' = st.requests
    /\ requestChain' = st.requestChain
    /\ chainRejected' = st.chainRejected
    /\ started' = st.started

NoInput == [op |-> "none"]

NoOutput == [done |-> FALSE]

Init ==
    /\ outputs \in Configs
    /\ files \in SUBSET {Resolve(Directory, d) : d \in Range(AllDestinations(outputs))}
    /\ fsLog = <<>>
    /\ exports = <<>>
    /\ requests = <<>>
    /\ requestChain = <<>>
    /\ chainRejected = FALSE
    /\ started = <<>>
    /\ debugLog = {}
    /\ gen = "idle"
    /\ input = NoInput
    /\ output = NoOutput

\* generate() and the microtasks that follow it
Generate ==
    /\ gen = "idle"
    /\ \E throwAt \in 0..MaxExports, throwOp \in {"unlink", "write"} :
         LET st == GenerateLoop(State, AllDestinations(outputs), throwAt, throwOp)
         IN  /\ Install(RunChain(st))
             /\ gen' = IF st.threw THEN "threw"
                       ELSE PromiseAll("pending", st.exports)
    /\ UNCHANGED <<outputs, debugLog, input, output>>

\* a direct call of the public convertToImage()
ConvertToImageCall ==
    /\ Cardinality({r \in 1..Len(requests) : requests[r].export = 0}) < MaxDirect
    /\ \E format \in DirectFormats :
         Install(RunChain(ConvertToImage(State, format, 0)))
    /\ UNCHANGED <<outputs, debugLog, gen, input, output>>

\* the remote call of request r completes: its response ends (ok) or its
\* socket reports an error, and the continuations this makes runnable run
RequestSettles ==
    \E r \in 1..Len(requests), ok \in BOOLEAN, writeThrows \in BOOLEAN :
        /\ requests[r].state = "inflight"
        /\ LET settled == [State EXCEPT
                   !.requests = IF ok THEN RequestResolved(@, r)
                                ELSE RequestRejected(@, r),
                   !.requestChain = SelectSeq(@, LAMBDA q : q # r),
                   !.chainRejected = ChainAfter(@, ok)]
               st == ConvertThen(settled, requests[r].export,
                                 settled.requests[r].promise, writeThrows)
           IN  /\ Install(RunChain(st))
               /\ gen' = PromiseAll(gen, st.exports)
        /\ debugLog' = IF ok THEN debugLog ELSE debugLog \cup {r}
        /\ UNCHANGED <<outputs, input, output>>

Next == Generate \/ ConvertToImageCall \/ RequestSettles

Spec == Init /\ [][Next]_vars

\* Init with an empty export directory: no destination holds a file yet
InitEmptyDirectory == Init /\ files = {}

\* The sequencer started on an empty export directory, where every remote
\* call completes: its response ends or its socket reports an error
FairSpec == InitEmptyDirectory /\ [][Next]_vars /\ WF_vars(RequestSettles)

------------------------------------------------------------------------------
(* The renderers *)

\* EMPTY_LAYER of ./types
EMPTY_LAYER == "EMPTY_LAYER"

\* enum Context of ./types
Context == [LAYER |-> "LAYER", RELATIONSHIP |-> "RELATIONSHIP"]

\* enum OutputDirection of ./schema
OutputDirection == [HORIZONTAL |-> "horizontal", VERTICAL |-> "vertical"]

\* output.direction of an output that specifies none
Undefined == "undefined"

\* the count above which an output without a direction is laid out horizontally
DirectionThreshold == 20

\* the longest connector
MaxConnectionLength == 4

\* name.replace(/[^\w]/g, '_')
SafeName(name) ==
    [i \in 1..Len(name) |-> IF name[i] \in WordChars THEN name[i] ELSE "_"]

\* component.filename.endsWith('**'); a filename is the sequence of its segments
IsDirectory(filename) ==
    filename # <<>> /\ filename[Len(filename)] = "**"

\* generatePlantUMLComponent() with the emphasis on import-only components
GeneratePlantUMLComponentInverted(component, context) ==
    LET hasLayer == component.layer # EMPTY_LAYER
        safeName == SafeName(component.name)
    IN  IF IsDirectory(component.filename)
        THEN <<"[">> \o component.name \o <<"]">>
        ELSE IF hasLayer
        THEN <<"(">> \o component.name \o <<")">>
        ELSE IF context = Context.RELATIONSHIP
        THEN safeName
        ELSE <<"rectangle \"">>
             \o (IF component.isImported THEN <<"<b>">> ELSE <<>>)
             \o component.name
             \o (IF component.isImported THEN <<"</b>">> ELSE <<>>)
             \o <<"\" as ">> \o safeName

\* generatePlantUMLComponent(component, context): the pieces pushed to puml,
\* joined; a name contributes its characters
GeneratePlantUMLComponent(component, context) ==
    LET hasLayer == component.layer # EMPTY_LAYER
        safeName == SafeName(component.name)
    IN  IF IsDirectory(component.filename)
        THEN <<"[">> \o component.name \o <<"]">>
        ELSE IF hasLayer
        THEN <<"(">> \o component.name \o <<")">>
        ELSE IF context = Context.RELATIONSHIP
        THEN safeName
        ELSE <<"rectangle \"">>
             \o (IF ~component.isImported THEN <<"<b>">> ELSE <<>>)
             \o component.name
             \o (IF ~component.isImported THEN <<"</b>">> ELSE <<>>)
             \o <<"\" as ">> \o safeName

\* the number of leading segments two absolute paths share
CommonPrefix(from, to) ==
    LET agree == {n \in 0..Min(Len(from), Len(to)) :
                    \A i \in 1..n : from[i] = to[i]}
    IN  CHOOSE n \in agree : \A m \in agree : m <= n

\* path.relative(from, to) of two absolute paths, as segments: one '..' for
\* each segment of from below the shared prefix, then the rest of to
PathRelative(from, to) ==
    LET shared == CommonPrefix(from, to)
    IN  [i \in 1..(Len(from) - shared) |-> ".."]
        \o SubSeq(to, shared + 1, Len(to))

\* path.dirname(p) of a relative path, as segments: '.' for '' and for a
\* single segment
PathDirname(segments) ==
    IF Len(segments) <= 1 THEN <<".">>
    ELSE SubSeq(segments, 1, Len(segments) - 1)

\* getConnectionLength() without the floor of an import-only component
GetConnectionLengthNoFloor(component, importedComponent) ==
    LET numberOfLevels ==
            Len(PathDirname(PathRelative(component.filename,
                                         importedComponent.filename)))
    IN  Max(1, Min(MaxConnectionLength, numberOfLevels))

\* getConnectionLength(component, importedComponent)
GetConnectionLength(component, importedComponent) ==
    LET numberOfLevels ==
            Len(PathDirname(PathRelative(component.filename,
                                         importedComponent.filename)))
    IN  Max(IF component.isImported THEN 2 ELSE 1,
            Min(MaxConnectionLength, numberOfLevels))

\* getConnectionSign() without the test for EMPTY_LAYER
GetConnectionSignAnyLayer(component, importedComponent) ==
    IF ~component.isImported THEN "="
    ELSE IF component.layer = importedComponent.layer THEN "."
    ELSE "-"

\* getConnectionSign(component, importedComponent)
GetConnectionSign(component, importedComponent) ==
    IF ~component.isImported THEN "="
    ELSE IF component.layer = importedComponent.layer
            /\ component.layer # EMPTY_LAYER THEN "."
    ELSE "-"

\* sign.repeat(n)
Repeat(sign, n) == [i \in 1..n |-> sign]

\* the body of the loops of generatePlantUMLRelationships() for a component
\* and a component it imports
RelationshipOf(component, importedComponent) ==
    LET connectionLength == GetConnectionLength(component, importedComponent)
        connectionSign == GetConnectionSign(component, importedComponent)
        connection == Repeat(connectionSign, connectionLength) \o <<">">>
    IN  [done |-> TRUE,
         connectionLength |-> connectionLength,
         connectionSign |-> connectionSign,
         connection |-> connection,
         relationshipUML |->
             <<GeneratePlantUMLComponent(component, Context.RELATIONSHIP),
               connection,
               GeneratePlantUMLComponent(importedComponent, Context.RELATIONSHIP)>>]

\* getAllComponents(layers) of ./generator.base: the components of all
\* layers, each once
GetAllComponents(layers) == UNION {layers[l] : l \in DOMAIN layers}

\* a string is truthy unless undefined (or empty)
Truthy(v) == v # Undefined /\ v # ""

\* generatePlantUMLSkin(output, layers): the lines pushed before the skin
\* parameters.  The conditional operator binds weaker than ||.
GeneratePlantUMLSkin(out, layers) ==
    LET direction ==
            IF Truthy(out.direction)
               \/ Cardinality(GetAllComponents(layers)) > DirectionThreshold
            THEN OutputDirection.HORIZONTAL
            ELSE OutputDirection.VERTICAL
    IN  <<"", "scale max 1920 width",
          IF direction = OutputDirection.HORIZONTAL
          THEN "left to right direction"
          ELSE "top to bottom direction">>

------------------------------------------------------------------------------
(* The renderers applied to bounded inputs *)

DirNames == {"a", "b"}

FileNames == {"f.ts", "**"}

Names == {<<"a", "/", "b">>, <<"c">>}

LayerNames == {EMPTY_LAYER, "L1", "L2"}

\* absolute filenames: up to MaxDirDepth directories, then a file or the
\* directory marker
Filenames ==
    {Append(d, f) : d \in SeqsUpTo(DirNames, MaxDirDepth), f \in FileNames}

Components ==
    [name : Names, filename : Filenames, layer : LayerNames,
     isImported : BOOLEAN]

\* layers of n components, the first k of them in layer L1 and the others
\* in EMPTY_LAYER
LayersOf(n, k) ==
    [l \in {"L1", EMPTY_LAYER} |-> IF l = "L1" THEN 1..k ELSE (k + 1)..n]

ComponentInputs ==
    [op : {"component"}, component : Components,
     context : {Context.LAYER, Context.RELATIONSHIP}]

RelationshipInputs ==
    [op : {"relationship"}, component : Components,
     importedComponent : Components]

SkinInputs ==
    {[op |-> "skin", output |-> [direction |-> d], layers |-> LayersOf(n, k)] :
        d \in {Undefined, OutputDirection.HORIZONTAL, OutputDirection.VERTICAL},
        n \in 0..MaxComponents, k \in {0, 1}}

InitRender ==
    /\ input \in ComponentInputs \cup RelationshipInputs \cup SkinInputs
    /\ output = NoOutput
    /\ outputs = <<>>
    /\ files = {}
    /\ fsLog = <<>>
    /\ exports = <<>>
    /\ requests = <<>>
    /\ requestChain = <<>>
    /\ chainRejected = FALSE
    /\ started = <<>>
    /\ debugLog = {}
    /\ gen = "idle"

RenderComponent ==
    /\ input.op = "component"
    /\ ~output.done
    /\ output' = [done |-> TRUE,
                  token |-> GeneratePlantUMLComponent(input.component,
                                                      input.context)]
    /\ UNCHANGED <<input, outputs, files, fsLog, exports, requests,
                   requestChain, chainRejected, started, debugLog, gen>>

RenderRelationship ==
    /\ input.op = "relationship"
    /\ ~output.done
    /\ output' = RelationshipOf(input.component, input.importedComponent)
    /\ UNCHANGED <<input, outputs, files, fsLog, exports, requests,
                   requestChain, chainRejected, started, debugLog, gen>>

RenderSkin ==
    /\ input.op = "skin"
    /\ ~output.done
    /\ output' = [done |-> TRUE,
                  puml |-> GeneratePlantUMLSkin(input.output, input.layers)]
    /\ UNCHANGED <<input, outputs, files, fsLog, exports, requests,
                   requestChain, chainRejected, started, debugLog, gen>>

NextRender == RenderComponent \/ RenderRelationship \/ RenderSkin

SpecRender == InitRender /\ [][NextRender]_vars

------------------------------------------------------------------------------
(* Claims about the export sequencer *)

Completed(r) == requests[r].state \in {"ok", "failed"}

InFlight == {r \in 1..Len(requests) : requests[r].state = "inflight"}

\* the filesystem operations convert() made for export e, in order
OpsOf(e) ==
    LET mine == SelectSeq(fsLog, LAMBDA c : c.export = e)
    IN  [i \in 1..Len(mine) |-> mine[i].op]

\* C1: at most one remote call is in flight at any time, and remote calls
\* start in submission order: a call has started only if every call started
\* before it has completed and every request still queued was submitted
\* after it.
C1_OneInFlightFifo ==
    /\ Cardinality(InFlight) <= 1
    /\ \A i \in 1..Len(started) : \A j \in 1..Len(started) :
           i < j => /\ started[i] < started[j]
                    /\ Completed(started[i])
    /\ \A r \in 1..Len(requests) :
           requests[r].state = "queued" =>
               \A i \in 1..Len(started) : started[i] < r

\* three requests were submitted, the first one's call failed, and the
\* third one's call has started
C1_Witness ==
    /\ Len(started) = 3
    /\ requests[started[1]].state = "failed"
    /\ \E r \in 1..Len(requests) : requests[r].export = 0

\* C2: a failed remote call does not poison the chain: under FairSpec the
\* chain is never rejected, a request whose call succeeded has its caller's
\* promise resolved, and every queued request has its remote call issued and
\* completed (request states only advance, so from some point on no request
\* is left queued or in flight).
C2_FailureDoesNotPoison ==
    /\ [](~chainRejected)
    /\ [](\A r \in 1..Len(requests) :
            requests[r].state = "ok" => requests[r].promise = "resolved")
    /\ <>[](\A r \in 1..Len(requests) :
              \/ (r \in Range(started) /\ Completed(r))
              \/ requests[r].state = "unqueued")

\* a request queued behind one whose call failed has had its call issued,
\* and its caller's promise is resolved
C2_Witness ==
    \E f \in 1..Len(requests), r \in 1..Len(requests) :
        /\ f < r
        /\ requests[f].state = "failed"
        /\ requests[r].state = "ok"
        /\ requests[r].promise = "resolved"

\* C3 as claimed: once generate() has run, an export request has been
\* submitted for every destination of every output, whatever filesystem
\* operation of another destination failed: at most the one destination
\* whose own delete or write threw is without its export.
C3_EveryDestinationSubmitted ==
    gen # "idle" => Len(exports) >= Len(AllDestinations(outputs)) - 1

\* C4 as claimed: the promise generate() returns is resolved or rejected
\* only when an export was submitted for every destination and none of them
\* is still pending.
C4_CompletesAfterEveryExport ==
    gen \in {"resolved", "rejected"} =>
        /\ Len(exports) = Len(AllDestinations(outputs))
        /\ \A e \in 1..Len(exports) : exports[e].state # "pending"

\* a destination for which convert() writes no file
ReturnsWithoutWrite(dest) ==
    /\ ~ShouldConvertAndSave(dest)
    /\ ExtName(Resolve(Directory, dest)) # <<".", "p", "u", "m", "l">>

\* C5 as claimed: an export whose path held a file has, once resolved, made
\* exactly one delete followed by exactly one write, or no filesystem call
\* at all when the destination is one convert() writes no file for.
C5_DeleteThenWrite ==
    \A e \in 1..Len(exports) :
        (exports[e].existed /\ exports[e].state = "resolved") =>
            \/ OpsOf(e) = <<"unlink", "write">>
            \/ ReturnsWithoutWrite(exports[e].dest) /\ OpsOf(e) = <<>>

\* C10: once a queued remote call has failed, the promise convertToImage()
\* returned for it stays pending, the export that awaits it stays pending
\* and has written no file, and the failure was passed to debug().
C10_FailedCallerHangs ==
    \A r \in 1..Len(requests) :
        requests[r].state = "failed" =>
            /\ requests[r].promise = "pending"
            /\ r \in debugLog
            /\ requests[r].export # 0 =>
                   /\ exports[requests[r].export].state = "pending"
                   /\ "write" \notin Range(OpsOf(requests[r].export))

\* an export's remote call failed, a later request's call has succeeded, and
\* generate()'s promise is still pending
C10_Witness ==
    \E f \in 1..Len(requests), r \in 1..Len(requests) :
        /\ f < r
        /\ requests[f].state = "failed"
        /\ requests[f].export # 0
        /\ exports[requests[f].export].state = "pending"
        /\ requests[r].state = "ok"
        /\ gen = "pending"

------------------------------------------------------------------------------
(* Claims about the renderers *)

Rendered(op) == input.op = op /\ output.done

\* C6 as claimed: the direction directive is the output's own direction when
\* it specifies one; otherwise it is horizontal exactly when the components
\* of all layers number more than 20.
C6_DirectionAsSpecified ==
    Rendered("skin") =>
        LET wanted ==
                IF input.output.direction # Undefined
                THEN input.output.direction
                ELSE IF Cardinality(GetAllComponents(input.layers)) > 20
                THEN OutputDirection.HORIZONTAL
                ELSE OutputDirection.VERTICAL
        IN  output.puml[3] = IF wanted = OutputDirection.HORIZONTAL
                             THEN "left to right direction"
                             ELSE "top to bottom direction"

\* the depth difference of two files: the segments of the relative path from
\* one to the other, the last one (the file) left out, and at least one
DepthDifference(from, to) ==
    LET shared == CommonPrefix(from, to)
    IN  Max(1, (Len(from) - shared) + (Len(to) - shared) - 1)

\* C7: the connector length is in 1..4, at least 2 for an import-only
\* source, and equals the depth difference clamped to that range; the
\* connector is that many glyphs and then the arrowhead.
C7_LengthClamped ==
    Rendered("relationship") =>
        LET c == input.component
            depth == DepthDifference(c.filename, input.importedComponent.filename)
            lowest == IF c.isImported THEN 2 ELSE 1
            n == output.connectionLength
        IN  /\ n \in lowest..4
            /\ n = (IF depth < lowest THEN lowest
                    ELSE IF depth > 4 THEN 4 ELSE depth)
            /\ Len(output.connection) = n + 1
            /\ \A i \in 1..n : output.connection[i] = output.connectionSign
            /\ output.connection[n + 1] = ">"
            /\ output.relationshipUML[2] = output.connection

\* an import-only source one level from its target is drawn with two glyphs
C7_Witness ==
    /\ Rendered("relationship")
    /\ input.component.isImported
    /\ DepthDifference(input.component.filename,
                       input.importedComponent.filename) = 1
    /\ output.connectionLength = 2

\* C8: the glyph is '=' for a source that is not import-only, '.' for an
\* import-only source in the same layer as its target when that layer is not
\* EMPTY_LAYER, and '-' otherwise.
C8_Glyph ==
    Rendered("relationship") =>
        LET c == input.component
            t == input.importedComponent
        IN  /\ ~c.isImported => output.connectionSign = "="
            /\ (c.isImported /\ c.layer = t.layer /\ c.layer # EMPTY_LAYER)
                   => output.connectionSign = "."
            /\ (c.isImported /\ (c.layer # t.layer \/ c.layer = EMPTY_LAYER))
                   => output.connectionSign = "-"

\* an import-only source and its target, both in EMPTY_LAYER
C8_Witness ==
    /\ Rendered("relationship")
    /\ input.component.isImported
    /\ input.component.layer = EMPTY_LAYER
    /\ input.importedComponent.layer = EMPTY_LAYER
    /\ output.connectionSign = "-"

Emphasized(token) == "<b>" \in Range(token) /\ "</b>" \in Range(token)

\* C9 as claimed: in LAYER context the token is emphasized exactly when the
\* component is not import-only, whatever its layer.
C9_EmphasisWhateverLayer ==
    (Rendered("component") /\ input.context = Context.LAYER) =>
        (Emphasized(output.token) <=> ~input.component.isImported)

\* C9 amended: in LAYER context the token of a component that is a file in
\* EMPTY_LAYER is emphasized exactly when the component is not import-only;
\* the token of a directory and of a component in a named layer is never
\* emphasized.
C9_EmphasisOfUngroupedFiles ==
    (Rendered("component") /\ input.context = Context.LAYER) =>
        LET c == input.component
        IN  IF c.layer = EMPTY_LAYER /\ ~IsDirectory(c.filename)
            THEN Emphasized(output.token) <=> ~c.isImported
            ELSE ~Emphasized(output.token)

\* a file in EMPTY_LAYER that is not import-only, declared with emphasis
C9_Witness ==
    /\ Rendered("component")
    /\ input.context = Context.LAYER
    /\ input.component.layer = EMPTY_LAYER
    /\ ~IsDirectory(input.component.filename)
    /\ ~input.component.isImported
    /\ Emphasized(output.token)

====
